---- MODULE Spec2Model ----
(***************************************************************************)
(* Model of the photo-voting server (src/server.js): the in-memory session *)
(* map, its mirror of one JSON file per session, and the HTTP handlers     *)
(* that read and write them.                                               *)
(*                                                                         *)
(* JavaScript values are modelled as follows.                              *)
(*   - strings are TLA+ strings; the value undefined (a missing body       *)
(*     field, a missing cookie) is JsUndefined and JSON's null is JsNull;  *)
(*   - an array is a sequence; an object is a function from its own keys   *)
(*     (strings) to values; property lookup also finds the names every     *)
(*     object inherits from Object.prototype (InheritedKeys);              *)
(*   - createdAt is the millisecond clock value: toISOString() and         *)
(*     new Date(string) are exact inverses on millisecond times;           *)
(*   - Array.prototype.sort is stable (ECMAScript 2019, Node >= 11) and    *)
(*     fs.writeFileSync rejects a non-string (Node >= 14).                 *)
(***************************************************************************)
EXTENDS Integers, Sequences, FiniteSets, TLC

VARIABLES
  sessions,   \* `let sessions = {}`: own key -> session object (server.js:50)
  keys,       \* insertion order of the own keys of `sessions` (Object.keys)
  files,      \* sessions/<id>.json: file name (id) -> JSON document
  now,        \* the clock as new Date() last read it
  resp,       \* the response being sent, with the request it answers
  inflight    \* requests received whose handler or callback has yet to run

vars == <<sessions, keys, files, now, resp, inflight>>

-----------------------------------------------------------------------------
(* Bounds of the model *)

\* photos plus voter entries (upvotes and downvotes) held by all sessions
MaxStore == 3

\* requests in flight at the same time, with those answered while one of
\* them was in flight
MaxInflight == 2

-----------------------------------------------------------------------------
(* JavaScript values *)

JsUndefined == "<undefined>"
JsNull == "<null>"

\* Names every plain object inherits from Object.prototype: obj[k] is a
\* function (truthy) for each of them although k is no own key.  "__proto__"
\* and the other inherited methods behave like "constructor" in the lookups
\* of this program.
InheritedKeys == {"constructor"}

\* obj[k] is truthy: an own key (every own value of `sessions` and of `votes`
\* is an object) or an inherited name.
Truthy(obj, k) == k \in DOMAIN obj \/ k \in InheritedKeys

\* !x for a string or a missing value x
Falsy(x) == x = JsUndefined \/ x = JsNull \/ x = ""

\* arr.filter(id => id !== x)
RECURSIVE Filter(_, _)
Filter(arr, x) ==
  IF arr = <<>> THEN <<>>
  ELSE IF Head(arr) # x THEN <<Head(arr)>> \o Filter(Tail(arr), x)
       ELSE Filter(Tail(arr), x)

\* number of occurrences of x in arr
Count(arr, x) == Cardinality({i \in DOMAIN arr : arr[i] = x})

\* the elements of arr
Range(arr) == {arr[i] : i \in DOMAIN arr}

\* obj with obj[k] = v assigned (k becomes an own key if it was none)
Put(obj, k, v) == [x \in DOMAIN obj \cup {k} |-> IF x = k THEN v ELSE obj[x]]

EmptyObject == [x \in {} |-> JsUndefined]

-----------------------------------------------------------------------------
(* Identifiers and request inputs *)

\* uuidv4(): the n-th identifier generated of each kind; a fresh identifier
\* differs from every identifier generated before it.
SessionUuids == <<"s1", "s2">>
OwnerUuids == <<"u1", "u2">>
PhotoUuids == <<"p1", "p2", "p3", "p4", "p5", "p6">>

\* session identifiers a request may name: the generated ones, a string that
\* names no session, and a name inherited from Object.prototype
RequestSessionIds == Range(SessionUuids) \cup {"nope"} \cup InheritedKeys

\* voterId of a vote body: two strings, or the field is missing
StringVoters == {"v1", "v2"}
VoterInputs == StringVoters \cup {JsUndefined}

\* vote of a vote body: the two stances, another string, or missing
StanceInputs == {"up", "down", "sideways", JsUndefined}

\* the times new Date() may read
ClockTimes == {0, 1}

\* userId cookie: missing, empty, a value the client holds
CookieInputs == {JsUndefined, "", "o1"}

\* name of a create or rename body
DefaultName == "Project <date>"
CreateNameInputs == {JsUndefined, "", "n1"}
RenameInputs == {JsUndefined, "", "  ", " n1 ", "n1"}

\* String.prototype.trim on the strings of RenameInputs
Trim(str) ==
  CASE str = "  " -> ""
    [] str = " n1 " -> "n1"
    [] OTHER -> str

-----------------------------------------------------------------------------
(* Persistence: saveSession, loadSession, loadAllSessions *)

\* JSON.stringify of an array of voter ids: undefined is written as null
StringifyArray(arr) ==
  [i \in DOMAIN arr |-> IF arr[i] = JsUndefined THEN JsNull ELSE arr[i]]

\* JSON.stringify(session, null, 2): every field of a session is defined;
\* only the voter arrays can hold undefined
Stringify(session) ==
  [session EXCEPT !.votes =
     [p \in DOMAIN @ |->
        [upvotes |-> StringifyArray(@[p].upvotes),
         downvotes |-> StringifyArray(@[p].downvotes)]]]

\* JSON.parse(data): the document as a value, null staying null
Parse(data) == data

\* a saveSession that rewrites a file without its votes
SaveSession_KeepsOldVotes(fs, ss, sessionId) ==
  Put(fs, sessionId,
      IF sessionId \in DOMAIN fs
      THEN [Stringify(ss[sessionId]) EXCEPT !.votes = fs[sessionId].votes]
      ELSE Stringify(ss[sessionId]))

\* saveSession(sessionId): the files after writing sessions[sessionId]
SaveSession(fs, ss, sessionId) == Put(fs, sessionId, Stringify(ss[sessionId]))

\* fs.existsSync(sessionPath)
FileExists(fs, sessionId) == sessionId \in DOMAIN fs

\* loadSession(sessionId) when the file exists: the session map after it
LoadSession(ss, fs, sessionId) == Put(ss, sessionId, Parse(fs[sessionId]))

\* Object.keys order after obj[k] = v
AddKey(ks, k) == IF k \in Range(ks) THEN ks ELSE Append(ks, k)

\* the orders in which readdirSync may list a set of files
Orders(S) ==
  {sq \in [1..Cardinality(S) -> S] : \A k \in S : \E i \in DOMAIN sq : sq[i] = k}

-----------------------------------------------------------------------------
(* Sizes used by the bounds *)

RECURSIVE SumOver(_, _)
\* sum of f[x] for x in S
SumOver(f, S) ==
  IF S = {} THEN 0
  ELSE LET x == CHOOSE y \in S : TRUE IN f[x] + SumOver(f, S \ {x})

TotalPhotos(ss) == SumOver([k \in DOMAIN ss |-> Len(ss[k].photos)], DOMAIN ss)

\* VoteCount adding only upvotes.length
VoteCount_UpvotesOnly(votes) ==
  SumOver([p \in DOMAIN votes |-> Len(votes[p].upvotes)], DOMAIN votes)

\* Object.keys(votes).reduce((total, photoId) => total + upvotes.length +
\* downvotes.length, 0)
VoteCount(votes) ==
  SumOver([p \in DOMAIN votes |->
             Len(votes[p].upvotes) + Len(votes[p].downvotes)], DOMAIN votes)

TotalVotes(ss) == SumOver([k \in DOMAIN ss |-> VoteCount(ss[k].votes)], DOMAIN ss)

StoreSize(ss) == TotalPhotos(ss) + TotalVotes(ss)

-----------------------------------------------------------------------------
(* Startup *)

\* no request is being answered
Idle == [op |-> "none"]

Init ==
  /\ sessions = EmptyObject
  /\ keys = <<>>
  /\ files = EmptyObject
  /\ now = 0
  /\ resp = Idle
  /\ inflight = <<>>

\* the process is restarted: `sessions` starts empty and loadAllSessions
\* loads every file in the order readdirSync lists them
Restart ==
  /\ \E order \in Orders(DOMAIN files) :
       /\ keys' = order
       /\ sessions' = [k \in DOMAIN files |-> LoadSession(EmptyObject, files, k)[k]]
  /\ resp' = [op |-> "restart"]
  /\ UNCHANGED <<files, now>>

\* res.json(...) has sent the response: the request is over
Respond ==
  /\ resp # Idle
  /\ resp' = Idle
  /\ UNCHANGED <<sessions, keys, files, now>>

-----------------------------------------------------------------------------
(* POST /api/session *)

\* a create that gives every session a new owner, whatever the cookie
CreateSession_IgnoresCookie(bodyName, cookie, date, uuids) ==
  LET n == Cardinality(DOMAIN files) + 1
      sessionId == uuids[n]
      userId == OwnerUuids[n]
      session == [photos |-> <<>>,
                  votes |-> EmptyObject,
                  createdAt |-> date,
                  userId |-> userId,
                  name |-> IF Falsy(bodyName) THEN DefaultName ELSE bodyName]
      ss == Put(sessions, sessionId, session)
  IN /\ Cardinality(DOMAIN files) < Len(uuids)
     /\ sessions' = ss
     /\ keys' = AddKey(keys, sessionId)
     /\ files' = SaveSession(files, ss, sessionId)
     /\ resp' = [op |-> "create", status |-> 200, sessionId |-> sessionId,
                 userId |-> userId, setCookie |-> Falsy(cookie)]
     /\ now' = date

\* `date` is the time new Date() reads: the clock does not run backwards.
\* `uuids` are the identifiers uuidv4() has left to give to sessions.
CreateSession(bodyName, cookie, date, uuids) ==
  LET n == Cardinality(DOMAIN files) + 1
      sessionId == uuids[n]
      userId == IF Falsy(cookie) THEN OwnerUuids[n] ELSE cookie
      session == [photos |-> <<>>,
                  votes |-> EmptyObject,
                  createdAt |-> date,
                  userId |-> userId,
                  name |-> IF Falsy(bodyName) THEN DefaultName ELSE bodyName]
      ss == Put(sessions, sessionId, session)
  IN /\ Cardinality(DOMAIN files) < Len(uuids)
     /\ sessions' = ss
     /\ keys' = AddKey(keys, sessionId)
     /\ files' = SaveSession(files, ss, sessionId)
     /\ resp' = [op |-> "create", status |-> 200, sessionId |-> sessionId,
                 userId |-> userId, setCookie |-> Falsy(cookie)]
     /\ now' = date

-----------------------------------------------------------------------------
(* POST /api/vote/:sessionId *)

\* the property key a value is converted to: votes[undefined] is
\* votes["undefined"]
PropertyKey(x) == IF x = JsUndefined THEN "undefined" ELSE x

\* the ids of the photos of a session
PhotoIds(ss, sessionId) ==
  IF sessionId \in DOMAIN ss
  THEN {ss[sessionId].photos[i].id : i \in DOMAIN ss[sessionId].photos}
  ELSE {}

\* photoId of a vote body that names no photo: the field is missing, or it is
\* a name inherited from Object.prototype
OtherPhotoIds == {JsUndefined} \cup InheritedKeys

NoVotes == [upvotes |-> <<>>, downvotes |-> <<>>]

\* RecordVote without the two filters: the voter is only pushed
RecordVote_NoFilter(photoVotes, vote, voterId) ==
  [upvotes |-> IF vote = "up" THEN Append(photoVotes.upvotes, voterId)
               ELSE photoVotes.upvotes,
   downvotes |-> IF vote = "down" THEN Append(photoVotes.downvotes, voterId)
                 ELSE photoVotes.downvotes]

\* RecordVote filtering only the array it pushes on
RecordVote_KeepsOther(photoVotes, vote, voterId) ==
  [upvotes |-> IF vote = "up"
               THEN Append(Filter(photoVotes.upvotes, voterId), voterId)
               ELSE photoVotes.upvotes,
   downvotes |-> IF vote = "down"
                 THEN Append(Filter(photoVotes.downvotes, voterId), voterId)
                 ELSE photoVotes.downvotes]

\* RecordVote returning early on a stance that is neither "up" nor "down"
RecordVote_IgnoresOther(photoVotes, vote, voterId) ==
  IF vote \notin {"up", "down"} THEN photoVotes
  ELSE [upvotes |-> IF vote = "up"
                    THEN Append(Filter(photoVotes.upvotes, voterId), voterId)
                    ELSE Filter(photoVotes.upvotes, voterId),
        downvotes |-> IF vote = "down"
                      THEN Append(Filter(photoVotes.downvotes, voterId), voterId)
                      ELSE Filter(photoVotes.downvotes, voterId)]

\* a vote that starts the record afresh: the other voters are dropped
RecordVote_ResetsRecord(photoVotes, vote, voterId) ==
  [upvotes |-> IF vote = "up" THEN <<voterId>> ELSE <<>>,
   downvotes |-> IF vote = "down" THEN <<voterId>> ELSE <<>>]

\* lines 220-227: the voter is filtered out of both arrays, then pushed on
\* the array of the stance
RecordVote(photoVotes, vote, voterId) ==
  LET ups == Filter(photoVotes.upvotes, voterId)
      downs == Filter(photoVotes.downvotes, voterId)
  IN [upvotes |-> IF vote = "up" THEN Append(ups, voterId) ELSE ups,
      downvotes |-> IF vote = "down" THEN Append(downs, voterId) ELSE downs]

\* lines 214-227 on one session: the session after the vote
CastVote(session, photoId, vote, voterId) ==
  LET key == PropertyKey(photoId)
      photoVotes == IF key \in DOMAIN session.votes THEN session.votes[key]
                    ELSE NoVotes
  IN [session EXCEPT !.votes = Put(@, key, RecordVote(photoVotes, vote, voterId))]

\* votes[photoId] is an inherited function: it is truthy, so no record is
\* created, and photoVotes.upvotes is undefined: .filter throws a TypeError
VoteThrows(session, photoId) ==
  /\ PropertyKey(photoId) \notin DOMAIN session.votes
  /\ PropertyKey(photoId) \in InheritedKeys

VoteHandler(sessionId, photoId, vote, voterId) ==
  IF ~Truthy(sessions, sessionId)
  THEN /\ resp' = [op |-> "vote", sessionId |-> sessionId, status |-> 404]
       /\ UNCHANGED <<sessions, keys, files, now>>
  ELSE IF sessionId \notin DOMAIN sessions
  THEN \* sessions[sessionId].votes is undefined: reading votes[photoId] throws
       /\ resp' = [op |-> "vote", sessionId |-> sessionId, status |-> 500]
       /\ UNCHANGED <<sessions, keys, files, now>>
  ELSE IF VoteThrows(sessions[sessionId], photoId)
  THEN /\ resp' = [op |-> "vote", sessionId |-> sessionId, status |-> 500,
                   photoId |-> photoId, vote |-> vote, voterId |-> voterId]
       /\ UNCHANGED <<sessions, keys, files, now>>
  ELSE LET ss == [sessions EXCEPT ![sessionId] = CastVote(@, photoId, vote, voterId)]
       IN /\ StoreSize(ss) <= MaxStore
          /\ sessions' = ss
          /\ files' = SaveSession(files, ss, sessionId)
          /\ resp' = [op |-> "vote", sessionId |-> sessionId, status |-> 200,
                      photoId |-> photoId, vote |-> vote, voterId |-> voterId,
                      votes |-> ss[sessionId].votes[PropertyKey(photoId)]]
          /\ UNCHANGED <<keys, now>>

-----------------------------------------------------------------------------
(* POST /api/upload/:sessionId *)

\* files of a multipart body: originalname, its path.extname, the declared
\* content type and the size in bytes
FileSizeLimit == 10 * 1024 * 1024
MaxFiles == 100
FileA == [originalname |-> "a.jpg", extname |-> ".jpg",
          mimetype |-> "image/jpeg", size |-> 1000]
FileB == [originalname |-> "b.PNG", extname |-> ".PNG",
          mimetype |-> "image/png", size |-> 2000]
FileTxt == [originalname |-> "n.txt", extname |-> ".txt",
            mimetype |-> "text/plain", size |-> 1000]
FileBig == [originalname |-> "big.gif", extname |-> ".gif",
            mimetype |-> "image/gif", size |-> FileSizeLimit + 1]

\* /jpeg|jpg|png|gif|webp/.test(s) on the lower-cased extension names and
\* on the content types of the files above
AllowedTypes(str) == str \in {".jpg", ".png", ".gif", "image/jpeg", "image/png", "image/gif"}

ToLowerCase(str) == IF str = ".PNG" THEN ".png" ELSE str

\* a fileFilter that accepts every file
FileFilter_AcceptsAll(file) == TRUE

\* fileFilter (lines 37-47)
FileFilter(file) ==
  AllowedTypes(ToLowerCase(file.extname)) /\ AllowedTypes(file.mimetype)

\* the batches a request may carry
Batches ==
  {<<>>, <<FileA>>, <<FileA, FileB>>, <<FileA, FileTxt>>, <<FileTxt, FileA>>,
   <<FileBig>>, <<FileA, FileBig>>, [i \in 1..(MaxFiles + 1) |-> FileA]}

\* upload.array('photos', 100) with limits: the error of the first file that
\* breaks a rule, "" when the batch is accepted
FileError(batch, i) ==
  IF i > MaxFiles THEN "LIMIT_FILE_COUNT"
  ELSE IF ~FileFilter(batch[i]) THEN "INVALID_FILE_TYPE"
  ELSE IF batch[i].size > FileSizeLimit THEN "LIMIT_FILE_SIZE"
  ELSE ""

MulterError(batch) ==
  LET bad == {i \in DOMAIN batch : FileError(batch, i) # ""}
  IN IF bad = {} THEN ""
     ELSE FileError(batch, CHOOSE i \in bad : \A j \in bad : i <= j)

\* UploadedFiles taking the files last to first
UploadedFiles_Reversed(batch, issued) ==
  [i \in DOMAIN batch |->
     [id |-> PhotoUuids[issued + i],
      originalName |-> batch[Len(batch) + 1 - i].originalname,
      size |-> batch[Len(batch) + 1 - i].size]]

\* lines 167-173: one Photo record per file, each with a fresh id
UploadedFiles(batch, issued) ==
  [i \in DOMAIN batch |->
     [id |-> PhotoUuids[issued + i],
      originalName |-> batch[i].originalname,
      size |-> batch[i].size]]

UploadHandler(sessionId, batch) ==
  IF ~Truthy(sessions, sessionId)
  THEN /\ resp' = [op |-> "upload", sessionId |-> sessionId, status |-> 404]
       /\ UNCHANGED <<sessions, keys, files, now>>
  ELSE IF MulterError(batch) # ""
  THEN /\ resp' = [op |-> "upload", sessionId |-> sessionId, status |-> 400,
                   error |-> MulterError(batch)]
       /\ UNCHANGED <<sessions, keys, files, now>>
  ELSE IF Len(batch) = 0
  THEN /\ resp' = [op |-> "upload", sessionId |-> sessionId, status |-> 400,
                   error |-> "No files uploaded"]
       /\ UNCHANGED <<sessions, keys, files, now>>
  ELSE IF sessionId \notin DOMAIN sessions
  THEN \* sessions[sessionId].photos is undefined: .push throws a TypeError
       /\ resp' = [op |-> "upload", sessionId |-> sessionId, status |-> 500]
       /\ UNCHANGED <<sessions, keys, files, now>>
  ELSE LET uploadedFiles == UploadedFiles(batch, TotalPhotos(sessions))
           ss == [sessions EXCEPT ![sessionId].photos = @ \o uploadedFiles]
       IN /\ StoreSize(ss) <= MaxStore
          /\ sessions' = ss
          /\ files' = SaveSession(files, ss, sessionId)
          /\ resp' = [op |-> "upload", sessionId |-> sessionId, status |-> 200,
                      files |-> uploadedFiles]
          /\ UNCHANGED <<keys, now>>

-----------------------------------------------------------------------------
(* GET /api/session/:sessionId *)

\* lines 197-201 and 237-241: "Try to load from disk if not in memory".
\* The session map and key order after the lookup.
Rehydrated(sessionId) ==
  IF ~Truthy(sessions, sessionId) /\ FileExists(files, sessionId)
  THEN [ss |-> LoadSession(sessions, files, sessionId), ks |-> AddKey(keys, sessionId)]
  ELSE [ss |-> sessions, ks |-> keys]

FetchHandler(sessionId) ==
  LET r == Rehydrated(sessionId)
  IN /\ sessions' = r.ss
     /\ keys' = r.ks
     /\ resp' = IF ~Truthy(r.ss, sessionId)
                THEN [op |-> "fetch", sessionId |-> sessionId, status |-> 404]
                ELSE IF sessionId \notin DOMAIN r.ss
                THEN \* res.json of an inherited function: an empty 200
                     [op |-> "fetch", sessionId |-> sessionId, status |-> 200,
                      body |-> JsUndefined]
                ELSE [op |-> "fetch", sessionId |-> sessionId, status |-> 200,
                      body |-> Stringify(r.ss[sessionId])]
     /\ UNCHANGED <<files, now>>

-----------------------------------------------------------------------------
(* GET /api/results/:sessionId *)

\* lines 243-250: the result of one photo
PhotoResult(session, photo) ==
  LET votes == IF photo.id \in DOMAIN session.votes THEN session.votes[photo.id]
               ELSE NoVotes
  IN [id |-> photo.id, originalName |-> photo.originalName, size |-> photo.size,
      upvotes |-> Len(votes.upvotes),
      downvotes |-> Len(votes.downvotes),
      score |-> Len(votes.upvotes) - Len(votes.downvotes)]

\* InsertByScore putting x before the elements of equal score
RECURSIVE InsertByScore_Unstable(_, _)
InsertByScore_Unstable(sorted, x) ==
  IF sorted = <<>> THEN <<x>>
  ELSE IF x.score - Head(sorted).score >= 0
       THEN <<x>> \o sorted
       ELSE <<Head(sorted)>> \o InsertByScore_Unstable(Tail(sorted), x)

\* x inserted into a sorted sequence: before the first element the comparator
\* puts after x, behind every other one
RECURSIVE InsertByScore(_, _)
InsertByScore(sorted, x) ==
  IF sorted = <<>> THEN <<x>>
  ELSE IF x.score - Head(sorted).score > 0
       THEN <<x>> \o sorted
       ELSE <<Head(sorted)>> \o InsertByScore(Tail(sorted), x)

\* .sort((a, b) => b.score - a.score), a stable sort
RECURSIVE SortByScore(_)
SortByScore(arr) ==
  IF arr = <<>> THEN <<>>
  ELSE InsertByScore(SortByScore(SubSeq(arr, 1, Len(arr) - 1)), arr[Len(arr)])

\* lines 243-251
Rank(session) ==
  SortByScore([i \in DOMAIN session.photos |-> PhotoResult(session, session.photos[i])])

ResultsHandler(sessionId) ==
  LET r == Rehydrated(sessionId)
  IN /\ sessions' = r.ss
     /\ keys' = r.ks
     /\ resp' = IF ~Truthy(r.ss, sessionId)
                THEN [op |-> "results", sessionId |-> sessionId, status |-> 404]
                ELSE IF sessionId \notin DOMAIN r.ss
                THEN \* sessions[sessionId].photos is undefined: .map throws
                     [op |-> "results", sessionId |-> sessionId, status |-> 500]
                ELSE [op |-> "results", sessionId |-> sessionId, status |-> 200,
                      body |-> Rank(r.ss[sessionId])]
     /\ UNCHANGED <<files, now>>

-----------------------------------------------------------------------------
(* GET /api/user/projects *)

\* lines 266-275: the summary of one session
Summary(ss, sessionId) ==
  [id |-> sessionId,
   name |-> ss[sessionId].name,
   createdAt |-> ss[sessionId].createdAt,
   photoCount |-> Len(ss[sessionId].photos),
   voteCount |-> VoteCount(ss[sessionId].votes)]

\* ks.filter(sessionId => sessions[sessionId].userId === userId)
RECURSIVE FilterOwner(_, _, _)
FilterOwner(ss, ks, userId) ==
  IF ks = <<>> THEN <<>>
  ELSE IF ss[Head(ks)].userId = userId
       THEN <<Head(ks)>> \o FilterOwner(ss, Tail(ks), userId)
       ELSE FilterOwner(ss, Tail(ks), userId)

\* InsertByDate with the comparator reversed: oldest first
RECURSIVE InsertByDate_Ascending(_, _)
InsertByDate_Ascending(sorted, x) ==
  IF sorted = <<>> THEN <<x>>
  ELSE IF Head(sorted).createdAt - x.createdAt > 0
       THEN <<x>> \o sorted
       ELSE <<Head(sorted)>> \o InsertByDate_Ascending(Tail(sorted), x)

RECURSIVE InsertByDate(_, _)
InsertByDate(sorted, x) ==
  IF sorted = <<>> THEN <<x>>
  ELSE IF x.createdAt - Head(sorted).createdAt > 0
       THEN <<x>> \o sorted
       ELSE <<Head(sorted)>> \o InsertByDate(Tail(sorted), x)

\* .sort((a, b) => new Date(b.createdAt) - new Date(a.createdAt)), stable
RECURSIVE SortByDate(_)
SortByDate(arr) ==
  IF arr = <<>> THEN <<>>
  ELSE InsertByDate(SortByDate(SubSeq(arr, 1, Len(arr) - 1)), arr[Len(arr)])

\* lines 258-276: the projects of the cookie's user
UserProjects(ss, ks, userId) ==
  IF Falsy(userId) THEN <<>>
  ELSE LET mine == FilterOwner(ss, ks, userId)
       IN SortByDate([i \in DOMAIN mine |-> Summary(ss, mine[i])])

\* the userId cookie of a listing request: missing, empty, an owner of a
\* session, or a value that owns nothing
ListCookieInputs == CookieInputs \cup Range(OwnerUuids) \cup {"nobody"}

ProjectsHandler(cookie) ==
  /\ resp' = [op |-> "projects", status |-> 200, cookie |-> cookie,
              projects |-> UserProjects(sessions, keys, cookie)]
  /\ UNCHANGED <<sessions, keys, files, now>>

-----------------------------------------------------------------------------
(* PUT /api/project/:sessionId *)

\* NameGiven without the trim: `name` is truthy
NameGiven_NoTrim(name) == ~Falsy(name)

\* `name && name.trim()` is truthy
NameGiven(name) == ~Falsy(name) /\ ~Falsy(Trim(name))

\* a rename that stamps the session with the time of the rename
Rename_Restamps(session, name) ==
  IF NameGiven(name) THEN [session EXCEPT !.name = Trim(name), !.createdAt = now]
  ELSE session

\* lines 290-293 on one session
Rename(session, name) ==
  IF NameGiven(name) THEN [session EXCEPT !.name = Trim(name)] ELSE session

RenameHandler(sessionId, name) ==
  IF ~Truthy(sessions, sessionId)
  THEN /\ resp' = [op |-> "rename", sessionId |-> sessionId, status |-> 404]
       /\ UNCHANGED <<sessions, keys, files, now>>
  ELSE IF sessionId \notin DOMAIN sessions
  THEN \* the inherited function: its name is not writable and the assignment
       \* is ignored; JSON.stringify of it is undefined and writeFileSync
       \* throws.  Without a name the response carries the function's name.
       /\ resp' = IF NameGiven(name)
                  THEN [op |-> "rename", sessionId |-> sessionId, status |-> 500]
                  ELSE [op |-> "rename", sessionId |-> sessionId, status |-> 200,
                        given |-> name, name |-> "Object"]
       /\ UNCHANGED <<sessions, keys, files, now>>
  ELSE LET ss == [sessions EXCEPT ![sessionId] = Rename(@, name)]
       IN /\ sessions' = ss
          /\ files' = IF NameGiven(name) THEN SaveSession(files, ss, sessionId)
                      ELSE files
          /\ resp' = [op |-> "rename", sessionId |-> sessionId, status |-> 200,
                      given |-> name, name |-> ss[sessionId].name]
          /\ UNCHANGED <<keys, now>>

-----------------------------------------------------------------------------
(* The server: one request is answered at a time *)

Create(names, cookies, uuids) ==
  \E bodyName \in names, cookie \in cookies, date \in {t \in ClockTimes : t >= now} :
    CreateSession(bodyName, cookie, date, uuids)

Upload(sessionIds, batches) ==
  \E sessionId \in sessionIds, batch \in batches : UploadHandler(sessionId, batch)

Fetch(sessionIds) == \E sessionId \in sessionIds : FetchHandler(sessionId)

Vote(sessionIds, otherIds, stances, voters) ==
  \E sessionId \in sessionIds :
    \E photoId \in PhotoIds(sessions, sessionId) \cup otherIds,
       vote \in stances, voterId \in voters :
      VoteHandler(sessionId, photoId, vote, voterId)

Results(sessionIds) == \E sessionId \in sessionIds : ResultsHandler(sessionId)

Projects(cookies) == \E cookie \in cookies : ProjectsHandler(cookie)

RenameProject(sessionIds, names) ==
  \E sessionId \in sessionIds, name \in names : RenameHandler(sessionId, name)

(* The vote ledger of one project: every vote and upload request, on a      *)
(* session created without a name and without a cookie and never renamed.   *)
LedgerSessionIds == {"s1", "nope"} \cup InheritedKeys

Next ==
  \/ resp = Idle /\ Create({JsUndefined}, {JsUndefined}, <<"s1">>) /\ UNCHANGED inflight
  \/ resp = Idle /\ Upload(LedgerSessionIds, Batches) /\ UNCHANGED inflight
  \/ resp = Idle /\ Fetch(LedgerSessionIds) /\ UNCHANGED inflight
  \/ resp = Idle /\ Vote(LedgerSessionIds, OtherPhotoIds, StanceInputs, VoterInputs) /\ UNCHANGED inflight
  \/ resp = Idle /\ Results(LedgerSessionIds) /\ UNCHANGED inflight
  \/ resp = Idle /\ Projects(ListCookieInputs) /\ UNCHANGED inflight
  \/ resp = Idle /\ Restart /\ UNCHANGED inflight
  \/ Respond /\ UNCHANGED inflight

Spec == Init /\ [][Next]_vars

(* The project directory: two projects, every create, rename and listing   *)
(* request, one voter and one photo per upload.                            *)
DirectoryNext ==
  \/ resp = Idle /\ Create(CreateNameInputs, CookieInputs, SessionUuids) /\ UNCHANGED inflight
  \/ resp = Idle /\ Upload(RequestSessionIds, {<<>>, <<FileA>>, <<FileTxt>>}) /\ UNCHANGED inflight
  \/ resp = Idle /\ Fetch(RequestSessionIds) /\ UNCHANGED inflight
  \/ resp = Idle /\ Vote(RequestSessionIds, {JsUndefined}, {"up"}, {"v1"}) /\ UNCHANGED inflight
  \/ resp = Idle /\ Results(RequestSessionIds) /\ UNCHANGED inflight
  \/ resp = Idle /\ Projects(ListCookieInputs) /\ UNCHANGED inflight
  \/ resp = Idle /\ RenameProject(RequestSessionIds, RenameInputs) /\ UNCHANGED inflight
  \/ resp = Idle /\ Restart /\ UNCHANGED inflight
  \/ Respond /\ UNCHANGED inflight

DirectorySpec == Init /\ [][DirectoryNext]_vars

(* Two projects side by side: uploads of one and of two files, votes of two *)
(* voters, renames, reads and restarts.                                     *)
ProjectIds == Range(SessionUuids)

ProjectsNext ==
  \/ resp = Idle /\ Create({JsUndefined}, {JsUndefined}, SessionUuids) /\ UNCHANGED inflight
  \/ resp = Idle /\ Upload(ProjectIds, {<<FileA>>, <<FileA, FileB>>, <<FileA, FileTxt>>}) /\ UNCHANGED inflight
  \/ resp = Idle /\ Fetch(ProjectIds) /\ UNCHANGED inflight
  \/ resp = Idle /\ Vote(ProjectIds, {JsUndefined}, {"up", "down"}, StringVoters) /\ UNCHANGED inflight
  \/ resp = Idle /\ Results(ProjectIds) /\ UNCHANGED inflight
  \/ resp = Idle /\ RenameProject(ProjectIds, {"n1"}) /\ UNCHANGED inflight
  \/ resp = Idle /\ Restart /\ UNCHANGED inflight
  \/ Respond /\ UNCHANGED inflight

ProjectsSpec == Init /\ [][ProjectsNext]_vars

(* A shared sessions directory: a second server process, started with       *)
(* another PORT in the same working directory, creates sessions too.  Of    *)
(* its POST /api/session this process sees the file it writes, nothing      *)
(* else: its map and its responses are its own.                             *)
PeerCreate(bodyName, cookie, date, uuids) ==
  LET n == Cardinality(DOMAIN files) + 1
      sessionId == uuids[n]
      session == [photos |-> <<>>,
                  votes |-> EmptyObject,
                  createdAt |-> date,
                  userId |-> IF Falsy(cookie) THEN OwnerUuids[n] ELSE cookie,
                  name |-> IF Falsy(bodyName) THEN DefaultName ELSE bodyName]
  IN /\ Cardinality(DOMAIN files) < Len(uuids)
     /\ files' = Put(files, sessionId, Stringify(session))
     /\ now' = date
     /\ UNCHANGED <<sessions, keys, resp>>

SharedDirectoryNext ==
  \/ resp = Idle /\ Create({JsUndefined}, {JsUndefined}, SessionUuids) /\ UNCHANGED inflight
  \/ resp = Idle /\ \E date \in {t \in ClockTimes : t >= now} :
                      PeerCreate(JsUndefined, JsUndefined, date, SessionUuids) /\ UNCHANGED inflight
  \/ resp = Idle /\ Upload(ProjectIds, {<<FileA>>, <<FileTxt>>}) /\ UNCHANGED inflight
  \/ resp = Idle /\ Fetch(ProjectIds) /\ UNCHANGED inflight
  \/ resp = Idle /\ Vote(ProjectIds, {JsUndefined}, {"up", "down"}, {"v1"}) /\ UNCHANGED inflight
  \/ resp = Idle /\ Results(ProjectIds) /\ UNCHANGED inflight
  \/ resp = Idle /\ RenameProject(ProjectIds, {"n1", ""}) /\ UNCHANGED inflight
  \/ resp = Idle /\ Restart /\ UNCHANGED inflight
  \/ Respond /\ UNCHANGED inflight

SharedDirectorySpec == Init /\ [][SharedDirectoryNext]_vars

(* Requests in flight at the same time.  A handler runs from its first line *)
(* to its last without another one in between; what lies between two       *)
(* requests is the reading of their bodies: express.json() before the vote  *)
(* handler (line 85), multer between the session test of the upload handler *)
(* (line 151) and its callback (line 155).                                  *)

\* a request whose body is being read; `during` collects the responses 200
\* sent for the same session in the meantime
Pending(op, sessionId, batch, photoId, vote, voterId) ==
  [op |-> op, sessionId |-> sessionId, batch |-> batch, photoId |-> photoId,
   vote |-> vote, voterId |-> voterId, during |-> <<>>, answered |-> FALSE]

Unanswered(request) == ~request.answered

\* the requests in flight and the responses they have taken note of
Load(requests) ==
  Len(requests)
    + SumOver([i \in DOMAIN requests |-> Len(requests[i].during)], DOMAIN requests)

\* request i is answered by resp'; the requests still in flight for the same
\* session take note of a response 200
Answer(i) ==
  inflight' =
    [j \in DOMAIN inflight |->
       IF j = i THEN [inflight[j] EXCEPT !.answered = TRUE]
       ELSE IF resp'.status = 200 /\ inflight[j].sessionId = resp'.sessionId
       THEN [inflight[j] EXCEPT !.during = Append(@, resp')]
       ELSE inflight[j]]

\* lines 148-155: the session test, then multer starts to read the files
UploadBegin(sessionId, batch) ==
  IF ~Truthy(sessions, sessionId)
  THEN UploadHandler(sessionId, batch) /\ UNCHANGED inflight
  ELSE /\ Load(inflight) < MaxInflight
       /\ inflight' = Append(inflight, Pending("upload", sessionId, batch,
                                               JsUndefined, JsUndefined, JsUndefined))
       /\ UNCHANGED <<sessions, keys, files, now, resp>>

\* lines 155-182: the callback of upload.array
UploadCallback(i) ==
  /\ inflight[i].op = "upload"
  /\ UploadHandler(inflight[i].sessionId, inflight[i].batch)
  /\ Answer(i)

\* line 85: express.json() reads the body of a vote
VoteReceive(sessionId, photoId, vote, voterId) ==
  /\ Load(inflight) < MaxInflight
  /\ inflight' = Append(inflight, Pending("vote", sessionId, <<>>,
                                          photoId, vote, voterId))
  /\ UNCHANGED <<sessions, keys, files, now, resp>>

\* lines 206-231
VoteHandle(i) ==
  /\ inflight[i].op = "vote"
  /\ VoteHandler(inflight[i].sessionId, inflight[i].photoId, inflight[i].vote,
                 inflight[i].voterId)
  /\ Answer(i)

\* the photo the concurrent votes are about: the first of the session
FirstPhotoId(sessionId) ==
  IF sessionId \in DOMAIN sessions /\ sessions[sessionId].photos # <<>>
  THEN {sessions[sessionId].photos[1].id}
  ELSE {}

ConcurrentNext ==
  \/ resp = Idle /\ Create({JsUndefined}, {JsUndefined}, <<"s1">>) /\ UNCHANGED inflight
  \/ resp = Idle /\ \E batch \in {<<FileA>>, <<FileTxt>>} : UploadBegin("s1", batch)
  \/ resp = Idle /\ \E i \in DOMAIN inflight : UploadCallback(i)
  \/ resp = Idle /\ \E photoId \in FirstPhotoId("s1"),
                         vote \in {"up", "down"}, voterId \in StringVoters :
                        VoteReceive("s1", photoId, vote, voterId)
  \/ resp = Idle /\ \E i \in DOMAIN inflight : VoteHandle(i)
  \/ resp = Idle /\ Restart /\ inflight' = <<>>
  \/ Respond /\ inflight' = SelectSeq(inflight, Unanswered)

ConcurrentSpec == Init /\ [][ConcurrentNext]_vars

-----------------------------------------------------------------------------
(* Properties of the vote ledger *)

\* the vote record of photo id p in session object `session`
Ups(session, p) == session.votes[p].upvotes
Downs(session, p) == session.votes[p].downvotes

\* the response in flight answers a vote that was recorded
VoteRecorded(r) == r.op = "vote" /\ r.status = 200

\* C1: in every reachable state, for every session (in memory and in its
\* file) and every photo id that has a VoteRecord, no string voter identifier
\* is in both upvotes and downvotes or occurs more than once in either.
C1_AtMostOneStance ==
  \A store \in {sessions, files} : \A sessionId \in DOMAIN store :
    \A p \in DOMAIN store[sessionId].votes : \A v \in StringVoters :
      Count(Ups(store[sessionId], p), v) + Count(Downs(store[sessionId], p), v) <= 1

\* a vote by "v1" was just recorded in a record that also holds "v2"
C1_Witness ==
  /\ VoteRecorded(resp)
  /\ resp.voterId = "v1" /\ resp.vote = "up"
  /\ Range(resp.votes.upvotes) = {"v1", "v2"}

\* what the record of photo id p in session sessionId holds of voter v:
\* <<occurrences in upvotes, occurrences in downvotes>>
Stance(ss, sessionId, p, v) ==
  IF sessionId \in DOMAIN ss /\ p \in DOMAIN ss[sessionId].votes
  THEN <<Count(Ups(ss[sessionId], p), v), Count(Downs(ss[sessionId], p), v)>>
  ELSE <<0, 0>>

\* the property keys votes are recorded under
VoteKeys == Range(PhotoUuids) \cup {"undefined"}

\* C2: a recorded vote of a string voter v on photo id p leaves v exactly once
\* in the array of the stance cast and not in the other array, whatever the
\* record held of v before; and no other step (a vote of another voter or on
\* another photo or session, an upload, a listing, a restart) changes what the
\* record of p holds of v.  So the last stance v cast on p is the only one
\* recorded.
C2_LastStanceOnly ==
  [][\A sessionId \in Range(SessionUuids), p \in VoteKeys, v \in StringVoters :
       IF /\ VoteRecorded(resp') /\ resp'.sessionId = sessionId
          /\ PropertyKey(resp'.photoId) = p /\ resp'.voterId = v
       THEN Stance(sessions', sessionId, p, v) =
              CASE resp'.vote = "up" -> <<1, 0>>
                [] resp'.vote = "down" -> <<0, 1>>
                [] OTHER -> <<0, 0>>
       ELSE Stance(sessions', sessionId, p, v) = Stance(sessions, sessionId, p, v)
    ]_vars

\* "v1" has just voted down on a photo whose record holds an upvote of "v2"
C2_Witness ==
  /\ VoteRecorded(resp)
  /\ resp.voterId = "v1" /\ resp.vote = "down"
  /\ resp.photoId \in PhotoIds(sessions, resp.sessionId)
  /\ resp.votes = [upvotes |-> <<"v2">>, downvotes |-> <<"v1">>]

\* C3: in the state a recorded vote leaves, casting the same vote again
\* changes neither the session in memory nor its file, and the voter is
\* exactly once in the array of the stance cast.
C3_Idempotent ==
  VoteRecorded(resp) =>
    LET sessionId == resp.sessionId
        again == [sessions EXCEPT ![sessionId] =
                    CastVote(@, resp.photoId, resp.vote, resp.voterId)]
        record == again[sessionId].votes[PropertyKey(resp.photoId)]
    IN /\ ~VoteThrows(sessions[sessionId], resp.photoId)
       /\ again = sessions
       /\ SaveSession(files, again, sessionId) = files
       /\ record = resp.votes
       /\ resp.vote = "up" => Count(record.upvotes, resp.voterId) = 1
       /\ resp.vote = "down" => Count(record.downvotes, resp.voterId) = 1

\* "v2" has just voted down behind "v1"
C3_Witness ==
  /\ VoteRecorded(resp)
  /\ resp.voterId = "v2" /\ resp.vote = "down"
  /\ resp.votes.downvotes = <<"v1", "v2">>

\* every value a voter array can hold
VoterValues == VoterInputs \cup {JsNull}

\* C4: a vote on an existing session whose stance is neither "up" nor "down"
\* (or is missing) is answered 200, leaves the voter in neither array of the
\* photo's record, leaves every other voter's entries in that record as they
\* were, and the session file holds the session as it is after the vote.
\* (Photo ids that name a property inherited from Object.prototype are set
\* apart: the handler throws on them whatever the stance is.)
C4_OtherStanceClears ==
  [][(/\ resp'.op = "vote"
      /\ resp'.sessionId \in DOMAIN sessions
      /\ resp'.vote \notin {"up", "down"}
      /\ PropertyKey(resp'.photoId) \notin InheritedKeys)
     => LET sessionId == resp'.sessionId
            p == PropertyKey(resp'.photoId)
        IN /\ resp'.status = 200
           /\ Stance(sessions', sessionId, p, resp'.voterId) = <<0, 0>>
           /\ p \in DOMAIN sessions'[sessionId].votes
           /\ \A x \in VoterValues \ {resp'.voterId} :
                Stance(sessions', sessionId, p, x) = Stance(sessions, sessionId, p, x)
           /\ files'[sessionId] = Stringify(sessions'[sessionId])
    ]_vars

\* a vote without a stance by "v1" was recorded; the record holds "v2"
C4_Witness ==
  /\ VoteRecorded(resp)
  /\ resp.voterId = "v1" /\ resp.vote = JsUndefined
  /\ resp.votes = [upvotes |-> <<"v2">>, downvotes |-> <<>>]

\* C6 (the claim as stated): for every session in memory, saving it, clearing
\* the session map and loading it again yields the same session.
C6_RoundTrip ==
  \A sessionId \in DOMAIN sessions :
    LoadSession(EmptyObject, SaveSession(files, sessions, sessionId), sessionId)[sessionId]
      = sessions[sessionId]

-----------------------------------------------------------------------------
(* Properties of the results and of the project listing *)

\* sum of the elements of a sequence of numbers
RECURSIVE SumSeq(_)
SumSeq(sq) == IF sq = <<>> THEN 0 ELSE Head(sq) + SumSeq(Tail(sq))

\* the place of photo id `id` in the photo list of a session
PhotoIndex(session, id) == CHOOSE i \in DOMAIN session.photos : session.photos[i].id = id

\* number of entries of one array of the record of photo id `id`, 0 without record
UpCount(session, id) ==
  IF id \in DOMAIN session.votes THEN Len(session.votes[id].upvotes) ELSE 0
DownCount(session, id) ==
  IF id \in DOMAIN session.votes THEN Len(session.votes[id].downvotes) ELSE 0

\* C7: the results of an existing session are answered 200 and hold exactly
\* one result per photo, with the photo's fields, upvotes and downvotes the
\* lengths of its arrays (0 without a record) and score their difference;
\* scores never increase along the sequence and results of equal score are
\* in upload order; the stored session and its file are unchanged.
C7_Rank ==
  [][(resp'.op = "results" /\ resp'.sessionId \in DOMAIN sessions)
     => LET session == sessions[resp'.sessionId]
            r == resp'.body
        IN /\ resp'.status = 200
           /\ Len(r) = Len(session.photos)
           /\ \A i \in DOMAIN session.photos :
                Cardinality({j \in DOMAIN r : r[j].id = session.photos[i].id}) = 1
           /\ \A j \in DOMAIN r :
                /\ r[j].id \in PhotoIds(sessions, resp'.sessionId)
                /\ r[j].originalName = session.photos[PhotoIndex(session, r[j].id)].originalName
                /\ r[j].size = session.photos[PhotoIndex(session, r[j].id)].size
                /\ r[j].upvotes = UpCount(session, r[j].id)
                /\ r[j].downvotes = DownCount(session, r[j].id)
                /\ r[j].score = r[j].upvotes - r[j].downvotes
           /\ \A i, j \in DOMAIN r :
                i < j => /\ r[i].score >= r[j].score
                         /\ r[i].score = r[j].score
                              => PhotoIndex(session, r[i].id) < PhotoIndex(session, r[j].id)
           /\ sessions' = sessions
           /\ files' = files
    ]_vars

\* results in which the photo uploaded second comes first
C7_Witness ==
  /\ resp.op = "results" /\ resp.status = 200
  /\ Len(resp.body) >= 2
  /\ resp.body[1].id = sessions[resp.sessionId].photos[2].id
  /\ resp.body[1].score > resp.body[2].score

\* upvotes + downvotes summed over the results of a session
RankVotes(session) ==
  SumSeq([j \in DOMAIN session.photos |->
            Rank(session)[j].upvotes + Rank(session)[j].downvotes])

\* entries recorded under photo ids that are no photo of the session
OrphanVotes(session) ==
  LET ids == {session.photos[i].id : i \in DOMAIN session.photos}
      orphans == DOMAIN session.votes \ ids
  IN SumOver([p \in orphans |-> Len(session.votes[p].upvotes)
                                  + Len(session.votes[p].downvotes)], orphans)

\* C9 (the claim as stated): in every summary of a listing, photoCount is the
\* number of photos and voteCount is the sum of upvotes + downvotes over the
\* photos of the session, which is the sum over the results of rank.
C9_VoteCountOverPhotos ==
  resp.op = "projects" =>
    \A i \in DOMAIN resp.projects :
      LET session == sessions[resp.projects[i].id]
      IN /\ resp.projects[i].photoCount = Len(session.photos)
         /\ resp.projects[i].voteCount = RankVotes(session)

\* C9 (amended): photoCount is the number of photos and voteCount is the sum
\* of upvotes + downvotes over every VoteRecord of the session: the sum over
\* the results of rank plus the entries recorded under photo ids that are no
\* photo of the session.
C9_VoteCountOverRecords ==
  resp.op = "projects" =>
    \A i \in DOMAIN resp.projects :
      LET session == sessions[resp.projects[i].id]
      IN /\ resp.projects[i].photoCount = Len(session.photos)
         /\ resp.projects[i].voteCount = RankVotes(session) + OrphanVotes(session)

\* a listed project with a vote on one of its photos and a vote on a photo id
\* that is none of its photos
C9_Witness ==
  /\ resp.op = "projects"
  /\ \E i \in DOMAIN resp.projects :
       LET session == sessions[resp.projects[i].id]
       IN /\ resp.projects[i].photoCount = 1
          /\ resp.projects[i].voteCount = 2
          /\ RankVotes(session) = 1

-----------------------------------------------------------------------------
(* Properties of the session directory *)

SessionOps == {"fetch", "upload", "vote", "results", "rename"}

\* C5 (the claim as stated): a request of fetch, upload, vote, results or
\* rename for a session id that no create returned and that has no file is
\* answered 404 and changes neither the session map nor any file.
C5_UnknownSessionNotFound ==
  [][(resp'.op \in SessionOps /\ resp'.sessionId \notin DOMAIN files)
     => /\ resp'.status = 404
        /\ sessions' = sessions
        /\ files' = files
    ]_vars

\* C8: a listing is answered 200 with exactly the sessions whose userId is
\* the cookie's, each once, createdAt never increasing along the list; it
\* is empty for a missing cookie and for one that owns nothing.
C8_ListByOwner ==
  resp.op = "projects" =>
    LET ps == resp.projects
    IN /\ resp.status = 200
       /\ \A i \in DOMAIN ps : ps[i].id \in DOMAIN sessions
       /\ \A sid \in DOMAIN sessions :
            Cardinality({i \in DOMAIN ps : ps[i].id = sid})
              = IF sessions[sid].userId = resp.cookie THEN 1 ELSE 0
       /\ \A i, j \in DOMAIN ps : i < j => ps[i].createdAt >= ps[j].createdAt
       /\ (resp.cookie \in {JsUndefined, "", "nobody"}) => ps = <<>>

\* a listing of two projects of one owner, the one created later first
C8_Witness ==
  /\ resp.op = "projects"
  /\ Len(resp.projects) = 2
  /\ resp.projects[1].id = "s2"
  /\ resp.projects[1].createdAt > resp.projects[2].createdAt

\* a name that is missing, empty or made of white space only
BlankNames == {JsUndefined, "", "  "}

\* C10: a rename of an existing session is answered 200; with a missing,
\* empty or white-space name the session map and the files are unchanged and
\* the response carries the old name; with any other name the session's name,
\* in memory and in its file, is the trimmed name, the response carries it,
\* and nothing else changes.
C10_Rename ==
  [][(resp'.op = "rename" /\ resp'.sessionId \in DOMAIN sessions)
     => LET sid == resp'.sessionId
            given == resp'.given
        IN /\ resp'.status = 200
           /\ keys' = keys
           /\ IF given \in BlankNames
              THEN /\ sessions' = sessions
                   /\ files' = files
                   /\ resp'.name = sessions[sid].name
              ELSE /\ sessions' = [sessions EXCEPT ![sid].name = Trim(given)]
                   /\ files' = [files EXCEPT ![sid] = Stringify(sessions'[sid])]
                   /\ files'[sid].name = Trim(given)
                   /\ resp'.name = Trim(given)
                   /\ Trim(given) \notin BlankNames
    ]_vars

\* a rename with a white-space name answered with the name the session keeps
C10_Witness ==
  /\ resp.op = "rename" /\ resp.status = 200
  /\ resp.sessionId \in DOMAIN sessions
  /\ resp.given = "  "
  /\ resp.name = "n1"
  /\ sessions[resp.sessionId].name = "n1"
  /\ files[resp.sessionId].name = "n1"

-----------------------------------------------------------------------------
(* Properties of uploads *)

\* a batch that is empty, has more than 100 files, or holds a file whose
\* extension or content type is no image type or whose size exceeds 10 MiB
BadBatch(batch) ==
  \/ Len(batch) = 0
  \/ Len(batch) > 100
  \/ \E i \in DOMAIN batch :
       \/ batch[i].extname \notin {".jpg", ".PNG"}
       \/ batch[i].mimetype \notin {"image/jpeg", "image/png", "image/gif"}
       \/ batch[i].size > 10 * 1024 * 1024

\* C11: an upload of a bad batch to an existing session is answered 400 and
\* leaves the session map and every file as they were: no photo of the
\* batch is recorded, not even those of its valid files.
C11_AllOrNothing ==
  [][(resp'.op = "upload" /\ resp'.sessionId \in DOMAIN sessions)
     => \A batch \in {b \in Batches : BadBatch(b)} :
          UploadHandler(resp'.sessionId, batch)
            => /\ resp'.status = 400
               /\ sessions' = sessions
               /\ files' = files
    ]_vars

\* a batch refused for the type of one file, on a session that has photos
\* and votes
C11_Witness ==
  /\ resp.op = "upload" /\ resp.status = 400
  /\ resp.error = "INVALID_FILE_TYPE"
  /\ resp.sessionId \in DOMAIN sessions
  /\ Len(sessions[resp.sessionId].photos) = 1
  /\ DOMAIN sessions[resp.sessionId].votes # {}
  /\ files[resp.sessionId].photos = sessions[resp.sessionId].photos

\* arr is an initial part of brr
IsPrefix(arr, brr) ==
  /\ Len(arr) <= Len(brr)
  /\ \A i \in DOMAIN arr : brr[i] = arr[i]

\* C12: in every step each session keeps its photo list as an initial part
\* of the new one, in memory and in its file; a successful upload appends
\* one record per file of the batch, in the order of the files, and no other
\* step changes a photo list; the photo ids of a session are pairwise
\* distinct.
C12_AppendOnly ==
  [][\A sid \in DOMAIN sessions :
       /\ sid \in DOMAIN sessions'
       /\ IsPrefix(sessions[sid].photos, sessions'[sid].photos)
       /\ IsPrefix(files[sid].photos, files'[sid].photos)
       /\ \A i, j \in DOMAIN sessions'[sid].photos :
            i # j => sessions'[sid].photos[i].id # sessions'[sid].photos[j].id
       /\ IF resp'.op = "upload" /\ resp'.status = 200 /\ resp'.sessionId = sid
          THEN /\ sessions'[sid].photos = sessions[sid].photos \o resp'.files
               /\ files'[sid].photos = sessions'[sid].photos
               /\ \A batch \in Batches :
                    UploadHandler(sid, batch)
                      => /\ Len(resp'.files) = Len(batch)
                         /\ \A i \in DOMAIN batch :
                              /\ resp'.files[i].originalName = batch[i].originalname
                              /\ resp'.files[i].size = batch[i].size
          ELSE /\ sessions'[sid].photos = sessions[sid].photos
               /\ files'[sid].photos = files[sid].photos
    ]_vars

\* a second upload, of two files, behind the photo of the first
C12_Witness ==
  /\ resp.op = "upload" /\ resp.status = 200
  /\ Len(resp.files) = 2
  /\ LET photos == sessions[resp.sessionId].photos
     IN /\ Len(photos) = 3
        /\ photos[2].originalName = "a.jpg"
        /\ photos[3].originalName = "b.PNG"
        /\ files[resp.sessionId].photos = photos

-----------------------------------------------------------------------------
(* Properties of persistence *)

C14_LazyRehydration ==
  [][(/\ resp'.op \in SessionOps
      /\ resp'.sessionId \in DOMAIN files
      /\ resp'.sessionId \notin DOMAIN sessions)
     => /\ resp'.status # 404
        /\ resp'.sessionId \in DOMAIN sessions'
    ]_vars

-----------------------------------------------------------------------------
(* Properties of requests in flight at the same time *)

\* how often voter v is in the upvotes and in the downvotes of photo key p
\* in session document doc
DocStance(doc, p, v) ==
  IF p \in DOMAIN doc.votes
  THEN <<Count(doc.votes[p].upvotes, v), Count(doc.votes[p].downvotes, v)>>
  ELSE <<0, 0>>

StanceOf(vote) ==
  CASE vote = "up" -> <<1, 0>>
    [] vote = "down" -> <<0, 1>>
    [] OTHER -> <<0, 0>>

\* document doc holds the effect of response es[k], where es are responses
\* 200 in the order they were sent: the photos of an upload; the stance of a
\* vote, unless a later vote of the voter on the photo took its place
Held(es, k, doc) ==
  IF es[k].op = "upload"
  THEN \A i \in DOMAIN es[k].files :
         \E j \in DOMAIN doc.photos : doc.photos[j] = es[k].files[i]
  ELSE \/ \E l \in (k + 1)..Len(es) :
            /\ es[l].op = "vote"
            /\ es[l].photoId = es[k].photoId
            /\ es[l].voterId = es[k].voterId
       \/ DocStance(doc, PropertyKey(es[k].photoId), es[k].voterId) = StanceOf(es[k].vote)

\* the request answered 200 by resp had other requests on its session
\* answered 200 while it was in flight
Overlapped(request) ==
  request.answered /\ resp.status = 200 /\ request.during # <<>>

-----------------------------------------------------------------------------
(* Properties of the identity of a session *)

\* C16: a create stores the owner it answers with and the time of the
\* request; from then on every step leaves each session in the map under
\* its identifier, with its userId and createdAt unchanged in memory and in
\* its file.
C16_FixedAtCreation ==
  [][/\ resp'.op = "create"
          => /\ resp'.sessionId \notin DOMAIN sessions
             /\ sessions'[resp'.sessionId].userId = resp'.userId
             /\ sessions'[resp'.sessionId].createdAt = now'
             /\ files'[resp'.sessionId].userId = resp'.userId
             /\ files'[resp'.sessionId].createdAt = now'
     /\ \A sid \in DOMAIN sessions :
          /\ sid \in DOMAIN sessions' /\ sid \in DOMAIN files'
          /\ sessions'[sid].userId = sessions[sid].userId
          /\ sessions'[sid].createdAt = sessions[sid].createdAt
          /\ files'[sid].userId = files[sid].userId
          /\ files'[sid].createdAt = files[sid].createdAt
    ]_vars

\* a session of owner "o1" created before another one, holding a photo,
\* renamed after the clock has moved on
C16_Witness ==
  /\ resp.op = "rename" /\ resp.status = 200 /\ resp.given = " n1 "
  /\ resp.sessionId \in DOMAIN sessions
  /\ sessions[resp.sessionId].name = "n1"
  /\ sessions[resp.sessionId].userId = "o1"
  /\ sessions[resp.sessionId].createdAt = 0
  /\ sessions[resp.sessionId].photos # <<>>
  /\ now = 1

\* the owners of the sessions in the map and on disk
Owners == {sessions[sid].userId : sid \in DOMAIN sessions}
            \cup {files[sid].userId : sid \in DOMAIN files}

\* C17: a create with a userId cookie stores exactly the cookie's value as
\* owner; without one (or with an empty one) it stores an identifier that no
\* existing session has as owner and sets it as cookie.  Either way the
\* session identifier is new, the session starts with no photos and no
\* votes, its file is written, and the response carries the identifier and
\* the owner stored.
C17_CreateResolvesOwner ==
  [][resp'.op = "create"
     => \A bodyName \in CreateNameInputs, cookie \in CookieInputs, date \in ClockTimes :
          CreateSession(bodyName, cookie, date, SessionUuids)
            => LET sid == resp'.sessionId
               IN /\ resp'.status = 200
                  /\ sid \notin DOMAIN sessions /\ sid \notin DOMAIN files
                  /\ sid \in DOMAIN sessions' /\ sid \in DOMAIN files'
                  /\ IF cookie \in {JsUndefined, ""}
                     THEN /\ sessions'[sid].userId \notin Owners
                          /\ sessions'[sid].userId \notin {JsUndefined, ""}
                          /\ resp'.setCookie
                     ELSE /\ sessions'[sid].userId = cookie
                          /\ ~resp'.setCookie
                  /\ sessions'[sid].photos = <<>>
                  /\ DOMAIN sessions'[sid].votes = {}
                  /\ files'[sid] = sessions'[sid]
                  /\ resp'.userId = sessions'[sid].userId
                  /\ \A other \in DOMAIN sessions :
                       sessions'[other] = sessions[other] /\ files'[other] = files[other]
    ]_vars

\* a second session, created with the cookie of the first one's owner
C17_Witness ==
  /\ resp.op = "create" /\ resp.sessionId = "s2"
  /\ resp.userId = "o1" /\ ~resp.setCookie
  /\ sessions["s1"].userId = "o1"
  /\ sessions["s2"].userId = "o1"
  /\ sessions["s2"].photos = <<>>
  /\ files["s2"] = sessions["s2"]

-----------------------------------------------------------------------------
(* Properties of votes on photo ids that are no photo *)

\* C18 (the claim as stated): a vote on an existing session with a photoId
\* that is the id of none of its photos is answered 200, leaves a record for
\* that photoId with the voter's stance in it, leaves the photo list as it
\* was, and the results of the session have no entry for that photoId.
C18_UnknownPhotoVote ==
  [][(/\ resp'.op = "vote"
      /\ resp'.sessionId \in DOMAIN sessions
      /\ resp'.photoId \notin PhotoIds(sessions, resp'.sessionId))
     => LET sid == resp'.sessionId
            p == PropertyKey(resp'.photoId)
        IN /\ resp'.status = 200
           /\ p \in DOMAIN sessions'[sid].votes
           /\ DocStance(sessions'[sid], p, resp'.voterId) = StanceOf(resp'.vote)
           /\ sessions'[sid].photos = sessions[sid].photos
           /\ \A j \in DOMAIN Rank(sessions'[sid]) :
                Rank(sessions'[sid])[j].id # resp'.photoId
    ]_vars

-----------------------------------------------------------------------------
(* Properties of sessions side by side *)

\* C19: a request that names a session, and the creation of a session, leave
\* every other session as it was, in memory and in its file; a vote on photo
\* id p by voter v leaves the records of the other photo ids of the session
\* as they were and every other voter, a string, as often in the arrays of
\* p's record as before.
C19_Isolation ==
  [][/\ resp'.op \in SessionOps \cup {"create"}
          => \A other \in DOMAIN sessions \ {resp'.sessionId} :
               /\ other \in DOMAIN sessions' /\ other \in DOMAIN files'
               /\ sessions'[other] = sessions[other]
               /\ files'[other] = files[other]
     /\ (resp'.op = "vote" /\ resp'.sessionId \in DOMAIN sessions)
          => LET sid == resp'.sessionId
                 p == PropertyKey(resp'.photoId)
             IN /\ \A q \in DOMAIN sessions[sid].votes \ {p} :
                     /\ sessions'[sid].votes[q] = sessions[sid].votes[q]
                     /\ files'[sid].votes[q] = files[sid].votes[q]
                /\ \A w \in StringVoters \ {resp'.voterId} :
                     /\ DocStance(sessions'[sid], p, w) = DocStance(sessions[sid], p, w)
                     /\ DocStance(files'[sid], p, w) = DocStance(files[sid], p, w)
    ]_vars

\* a vote of "v2" on a photo id "v1" has voted on, next to another session
\* that holds a photo
C19_Witness ==
  /\ resp.op = "vote" /\ resp.status = 200
  /\ resp.voterId = "v2"
  /\ DocStance(sessions[resp.sessionId], PropertyKey(resp.photoId), "v1") # <<0, 0>>
  /\ DocStance(sessions[resp.sessionId], PropertyKey(resp.photoId), "v2") # <<0, 0>>
  /\ \E other \in DOMAIN sessions \ {resp.sessionId} :
       /\ sessions[other].photos # <<>>
       /\ files[other] = sessions[other]


====
